---------------------------- MODULE Spec2Model ----------------------------
(***************************************************************************)
(* Model of the e-commerce content automation service.                     *)
(*                                                                         *)
(*   src/error-handler.js   error classes, formatErrorResponse,            *)
(*                          validateProductData, validateSpreadsheetParams,*)
(*                          errorHandler                                   *)
(*   src/unnamed/part_000   generateContent, generateAllContent,           *)
(*                          readFromSpreadsheet, writeToSpreadsheet and    *)
(*                          the two POST endpoints                         *)
(*                                                                         *)
(* Strings that the code inspects character by character (trim, isNaN,     *)
(* parseFloat) are sequences of one-character strings.  Strings that the   *)
(* code only builds from literals (messages, codes, content type names)    *)
(* are TLA+ strings.  Numbers are integers counting hundredths, so 19.99   *)
(* is 1999; the strings of the model carry at most two fraction digits and *)
(* no exponent, hex or Infinity literal.                                   *)
(***************************************************************************)
EXTENDS Integers, Sequences, FiniteSets, TLC

(***************************************************************************)
(* JavaScript values, as far as a JSON body or a sheet cell can hold them. *)
(***************************************************************************)
Undefined == [t |-> "undefined", s |-> <<>>, n |-> 0]

Null == [t |-> "null", s |-> <<>>, n |-> 0]

Bool(b) == [t |-> "boolean", s |-> <<>>, n |-> IF b THEN 1 ELSE 0]

NumV(k) == [t |-> "number", s |-> <<>>, n |-> k]

Str(chars) == [t |-> "string", s |-> chars, n |-> 0]

\* a JavaScript number: NaN, or a value in hundredths
NaN == [nan |-> TRUE, val |-> 0]

Number(k) == [nan |-> FALSE, val |-> k]

\* !v is false: the value is truthy
Truthy(v) ==
    CASE v.t = "undefined" -> FALSE
      [] v.t = "null" -> FALSE
      [] v.t = "boolean" -> v.n = 1
      [] v.t = "number" -> v.n # 0
      [] v.t = "string" -> v.s # <<>>

TypeOf(v) == IF v.t = "null" THEN "object" ELSE v.t

(***************************************************************************)
(* String operations on character sequences.                               *)
(***************************************************************************)
IsWhiteSpace(c) == c \in {" ", "\t"}

DigitChars == <<"0", "1", "2", "3", "4", "5", "6", "7", "8", "9">>

IsDigit(c) == \E i \in 1..Len(DigitChars) : DigitChars[i] = c

DigitVal(c) == (CHOOSE i \in 1..Len(DigitChars) : DigitChars[i] = c) - 1

RECURSIVE TrimStart(_)
TrimStart(s) ==
    IF s # <<>> /\ IsWhiteSpace(Head(s)) THEN TrimStart(Tail(s)) ELSE s

RECURSIVE TrimEnd(_)
TrimEnd(s) ==
    IF s # <<>> /\ IsWhiteSpace(s[Len(s)])
    THEN TrimEnd(SubSeq(s, 1, Len(s) - 1))
    ELSE s

\* String.prototype.trim
Trim(s) == TrimEnd(TrimStart(s))

\* number of leading decimal digits of s
RECURSIVE DigitsLen(_)
DigitsLen(s) ==
    IF s # <<>> /\ IsDigit(Head(s)) THEN 1 + DigitsLen(Tail(s)) ELSE 0

RECURSIVE IntOf(_)
IntOf(ds) ==
    IF ds = <<>> THEN 0
    ELSE IntOf(SubSeq(ds, 1, Len(ds) - 1)) * 10 + DigitVal(ds[Len(ds)])

\* the fraction digits ds as hundredths
FracOf(ds) ==
    IF Len(ds) = 0 THEN 0
    ELSE IF Len(ds) = 1 THEN DigitVal(ds[1]) * 10
    ELSE DigitVal(ds[1]) * 10 + DigitVal(ds[2])

\* The longest prefix of s that is a signed decimal literal:
\* [used |-> characters consumed, num |-> its value], NaN when there is none.
DecimalPrefix(s) ==
    LET signed == s # <<>> /\ s[1] \in {"+", "-"}
        neg == s # <<>> /\ s[1] = "-"
        u == IF signed THEN Tail(s) ELSE s
        ni == DigitsLen(u)
        rest == SubSeq(u, ni + 1, Len(u))
        dot == rest # <<>> /\ rest[1] = "."
        nf == IF dot THEN DigitsLen(Tail(rest)) ELSE 0
        mag == IntOf(SubSeq(u, 1, ni)) * 100
               + (IF dot THEN FracOf(SubSeq(Tail(rest), 1, nf)) ELSE 0)
    IN  IF ni = 0 /\ nf = 0
        THEN [used |-> 0, num |-> NaN]
        ELSE [used |-> (IF signed THEN 1 ELSE 0) + ni + (IF dot THEN 1 + nf ELSE 0),
              num |-> Number(IF neg THEN 0 - mag ELSE mag)]

\* Number(string): the whole trimmed string must be a literal; "" is 0
StringToNumber(s) ==
    LET t == Trim(s)
        p == DecimalPrefix(t)
    IN  IF t = <<>> THEN Number(0)
        ELSE IF p.num.nan \/ p.used # Len(t) THEN NaN
        ELSE p.num

\* Number(v)
ToNumber(v) ==
    CASE v.t = "undefined" -> NaN
      [] v.t = "null" -> Number(0)
      [] v.t = "boolean" -> Number(v.n * 100)
      [] v.t = "number" -> Number(v.n)
      [] v.t = "string" -> StringToNumber(v.s)

RECURSIVE NatToChars(_)
NatToChars(k) ==
    IF k < 10 THEN <<DigitChars[k + 1]>>
    ELSE NatToChars(k \div 10) \o <<DigitChars[(k % 10) + 1]>>

\* String(number), for a number given in hundredths
NumberToChars(k) ==
    LET a == IF k < 0 THEN 0 - k ELSE k
        f == a % 100
        frac == IF f = 0 THEN <<>>
                ELSE IF f % 10 = 0 THEN <<".", DigitChars[(f \div 10) + 1]>>
                ELSE <<".", DigitChars[(f \div 10) + 1], DigitChars[(f % 10) + 1]>>
    IN  (IF k < 0 THEN <<"-">> ELSE <<>>) \o NatToChars(a \div 100) \o frac

\* String(v)
ToChars(v) ==
    CASE v.t = "undefined" -> <<"u", "n", "d", "e", "f", "i", "n", "e", "d">>
      [] v.t = "null" -> <<"n", "u", "l", "l">>
      [] v.t = "boolean" -> IF v.n = 1 THEN <<"t", "r", "u", "e">>
                            ELSE <<"f", "a", "l", "s", "e">>
      [] v.t = "number" -> NumberToChars(v.n)
      [] v.t = "string" -> v.s

\* the global isNaN(v)
isNaN(v) == ToNumber(v).nan

\* the global parseFloat(v): the decimal prefix of String(v) after leading blanks
parseFloat(v) == DecimalPrefix(TrimStart(ToChars(v))).num

\* Array.prototype.join for an array of strings
RECURSIVE Join(_, _)
Join(list, sep) ==
    IF Len(list) = 0 THEN ""
    ELSE IF Len(list) = 1 THEN list[1]
    ELSE list[1] \o sep \o Join(Tail(list), sep)


(***************************************************************************)
(* Error classes (src/error-handler.js).  An error object is a record;     *)
(* statusCode 0, status 0, code "" and FieldAbsent stand for a property    *)
(* the object does not have.                                               *)
(***************************************************************************)
FieldAbsent == [t |-> "undefined", s |-> ""]

FieldNull == [t |-> "null", s |-> ""]

FieldName(name) == [t |-> "string", s |-> name]

Timestamp == "<ISO time>"

\* Error.prototype.stack: the header line and the frames
StackOf(name, message) == name \o ": " \o message \o "\n    at <frames>"

APIError(cls, message, statusCode, code) ==
    [cls |-> cls, api |-> TRUE, message |-> message, statusCode |-> statusCode,
     code |-> code, field |-> FieldAbsent, status |-> 0,
     stack |-> StackOf("Error", message)]

ValidationError(message, field) ==
    [APIError("ValidationError", message, 400, "VALIDATION_ERROR")
        EXCEPT !.field = field]

QuotaError ==
    APIError("QuotaError",
             "API quota exceeded. Please check your plan and billing details.",
             429, "QUOTA_EXCEEDED")

GoogleSheetsError(message) ==
    APIError("GoogleSheetsError", message, 500, "GOOGLE_SHEETS_ERROR")

OpenAIError(message, statusCode) ==
    APIError("OpenAIError", message, statusCode, "OPENAI_ERROR")

\* an error thrown by the runtime or by a client library, not an APIError
NativeError(cls, message, status) ==
    [cls |-> cls, api |-> FALSE, message |-> message, statusCode |-> 0,
     code |-> "", field |-> FieldAbsent, status |-> status,
     stack |-> StackOf(cls, message)]

NoError == NativeError("none", "", 0)

\* the outcome of a call that may throw
Returns == [threw |-> FALSE, error |-> NoError]

Throws(e) == [threw |-> TRUE, error |-> e]

(***************************************************************************)
(* formatErrorResponse (src/error-handler.js:42-83)                        *)
(***************************************************************************)
\* formatErrorResponse whose generic branch hands the whole error over
formatErrorResponseLeakingStack(error) ==
    IF error.api
    THEN [error |-> error.message, code |-> error.code,
          field |-> IF error.field.t = "string" /\ error.field.s # ""
                    THEN error.field ELSE FieldAbsent,
          timestamp |-> Timestamp]
    ELSE [error |-> IF error.message # "" THEN error.message
                    ELSE "An unexpected error occurred",
          code |-> "UNKNOWN_ERROR", field |-> FieldAbsent,
          timestamp |-> Timestamp, stack |-> error.stack]

formatErrorResponse(error) ==
    IF error.api
    THEN [error |-> error.message,
          code |-> error.code,
          field |-> IF error.field.t = "string" /\ error.field.s # ""
                    THEN error.field ELSE FieldAbsent,
          timestamp |-> Timestamp]
    ELSE IF error.status = 429
    THEN [error |-> "API quota exceeded. Please check your plan and billing details.",
          code |-> "QUOTA_EXCEEDED", field |-> FieldAbsent, timestamp |-> Timestamp]
    ELSE IF error.status = 401
    THEN [error |-> "Invalid API credentials. Please check your authentication.",
          code |-> "AUTH_ERROR", field |-> FieldAbsent, timestamp |-> Timestamp]
    ELSE IF error.status >= 500
    THEN [error |-> "External API error. Please try again later.",
          code |-> "EXTERNAL_ERROR", field |-> FieldAbsent, timestamp |-> Timestamp]
    ELSE [error |-> IF error.message # "" THEN error.message
                    ELSE "An unexpected error occurred",
          code |-> "UNKNOWN_ERROR", field |-> FieldAbsent, timestamp |-> Timestamp]

(***************************************************************************)
(* errorHandler (src/error-handler.js:132-145): the response it sends.     *)
(***************************************************************************)
errorHandler(err) ==
    [kind |-> "error",
     status |-> IF err.statusCode # 0 THEN err.statusCode ELSE 500,
     body |-> formatErrorResponse(err)]

(***************************************************************************)
(* validateProductData (src/error-handler.js:88-110)                       *)
(***************************************************************************)
\* v.trim() raises a TypeError: v is neither a string nor skipped as falsy
TrimIsNotAFunction(v) == Truthy(v) /\ v.t # "string"

\* !v || v.trim() === ''
MissingOrBlank(v) == ~Truthy(v) \/ Trim(v.s) = <<>>

NameErrors(data) ==
    IF MissingOrBlank(data.name) THEN <<"Product name is required">> ELSE <<>>

CategoryErrors(data) ==
    IF MissingOrBlank(data.category)
    THEN <<"Product category is required">> ELSE <<>>

PriceErrors(data) ==
    IF data.price # Undefined
       /\ (isNaN(data.price) \/ parseFloat(data.price).val < 0)
    THEN <<"Product price must be a valid positive number">> ELSE <<>>

FeaturesErrors(data) ==
    IF Truthy(data.features) /\ TypeOf(data.features) # "string"
    THEN <<"Product features must be a string">> ELSE <<>>

validateProductData(data) ==
    IF TrimIsNotAFunction(data.name)
    THEN Throws(NativeError("TypeError", "data.name.trim is not a function", 0))
    ELSE IF TrimIsNotAFunction(data.category)
    THEN Throws(NativeError("TypeError", "data.category.trim is not a function", 0))
    ELSE LET errors == NameErrors(data) \o CategoryErrors(data)
                       \o PriceErrors(data) \o FeaturesErrors(data)
         IN  IF Len(errors) > 0
             THEN Throws(ValidationError(Join(errors, "; "), FieldNull))
             ELSE Returns

(***************************************************************************)
(* validateSpreadsheetParams (src/error-handler.js:115-127)                *)
(***************************************************************************)
validateSpreadsheetParams(params) ==
    IF TrimIsNotAFunction(params.spreadsheetId)
    THEN Throws(NativeError("TypeError",
                            "params.spreadsheetId.trim is not a function", 0))
    ELSE IF MissingOrBlank(params.spreadsheetId)
    THEN Throws(ValidationError("Spreadsheet ID is required",
                                FieldName("spreadsheetId")))
    ELSE IF TrimIsNotAFunction(params.inputRange)
    THEN Throws(NativeError("TypeError",
                            "params.inputRange.trim is not a function", 0))
    ELSE IF MissingOrBlank(params.inputRange)
    THEN Throws(ValidationError("Input range is required",
                                FieldName("inputRange")))
    ELSE IF TrimIsNotAFunction(params.outputRange)
    THEN Throws(NativeError("TypeError",
                            "params.outputRange.trim is not a function", 0))
    ELSE IF MissingOrBlank(params.outputRange)
    THEN Throws(ValidationError("Output range is required",
                                FieldName("outputRange")))
    ELSE Returns


(***************************************************************************)
(* Bounds of the model.                                                    *)
(***************************************************************************)
\* data rows of the sheet a batch reads (the header row comes on top)
MaxRows == 2

\* provider calls that may fail during one batch run
MaxBatchFailures == 2

(***************************************************************************)
(* Inputs: request bodies, sheet contents, outcomes of the external calls. *)
(***************************************************************************)
Mug == <<"M", "u", "g">>

Lamp == <<"L", "a", "m", "p">>

Home == <<"H", "o", "m", "e">>

Led == <<"l", "e", "d">>

NameValues == {Undefined, Str(<<>>), Str(<<" ">>), Str(Mug), NumV(700)}

CategoryValues == {Undefined, Str(<<" ", " ">>), Str(Home), Bool(TRUE)}

PriceValues ==
    {Undefined, Null, Bool(TRUE), NumV(0), NumV(1999), NumV(0 - 500),
     Str(<<>>), Str(<<"1", "9", ".", "9", "9">>), Str(<<"-", "5">>),
     Str(<<"a", "b", "c">>)}

FeaturesValues == {Undefined, Str(<<>>), Str(Led), NumV(0), NumV(300)}

Product(sku, name, category, features, price, audience, useCase) ==
    [sku |-> sku, name |-> name, category |-> category, features |-> features,
     price |-> price, audience |-> audience, useCase |-> useCase]

\* bodies of POST /api/generate-content
ProductBodies ==
    {Product(Undefined, n, c, f, p, Undefined, Undefined) :
        n \in NameValues, c \in CategoryValues,
        f \in FeaturesValues, p \in PriceValues}

NoProduct ==
    Product(Undefined, Undefined, Undefined, Undefined, Undefined,
            Undefined, Undefined)

\* bodies of POST /api/process-products
BatchBodies ==
    [spreadsheetId : {Undefined, Str(<<>>), Str(<<"s", "1">>), NumV(12300)},
     inputRange : {Undefined, Str(<<" ">>), Str(<<"A", "1">>), Bool(TRUE)},
     outputRange : {Undefined, Str(<<>>), Str(<<"H", "1">>)}]

NoParams ==
    [spreadsheetId |-> Undefined, inputRange |-> Undefined,
     outputRange |-> Undefined]

\* rows of a sheet: every cell is a string, trailing cells may be missing
HeaderRow == <<Str(<<"S", "K", "U">>), Str(<<"N", "a", "m", "e">>)>>

RowDomain ==
    {<<Str(<<"1">>), Str(Mug), Str(Home), Str(Led),
       Str(<<"1", "9", ".", "9", "9">>), Str(<<"A">>), Str(<<"U">>)>>,
     <<Str(<<"2">>), Str(Lamp), Str(Home), Str(<<>>), Str(<<"5">>)>>,
     <<Str(<<"3">>), Str(<<" ">>), Str(Home), Str(Led), Str(<<"5">>)>>,
     <<Str(<<"4">>), Str(Mug), Str(Home), Str(Led), Str(<<"-", "5">>)>>,
     <<Str(<<"5">>)>>}

Tables ==
    {<<>>} \cup
    {<<HeaderRow>> \o rs : rs \in UNION {[1..n -> RowDomain] : n \in 0..MaxRows}}

\* what sheets.spreadsheets.values.get does: it fails, or it answers with
\* data.values absent (modelled as hasValues FALSE) or holding a table
ReadOutcomes ==
    {[ok |-> FALSE, hasValues |-> FALSE, values |-> <<>>,
      error |-> NativeError("Error", "The caller does not have permission", 0)],
     [ok |-> TRUE, hasValues |-> FALSE, values |-> <<>>, error |-> NoError]}
    \cup {[ok |-> TRUE, hasValues |-> TRUE, values |-> tb, error |-> NoError] :
            tb \in Tables}

\* what sheets.spreadsheets.values.update does
WriteOutcomes ==
    {[ok |-> TRUE, error |-> NoError],
     [ok |-> FALSE, error |-> NativeError("Error", "Quota exceeded for quota metric", 0)]}

\* what openai.chat.completions.create does: a completion, or an error with
\* the HTTP status of the provider
ProviderOutcomes ==
    {[ok |-> TRUE, content |-> <<" ", "O", "k", " ">>, error |-> NoError],
     [ok |-> FALSE, content |-> <<>>,
      error |-> NativeError("RateLimitError", "You exceeded your current quota", 429)],
     [ok |-> FALSE, content |-> <<>>,
      error |-> NativeError("AuthenticationError", "Incorrect API key provided", 401)],
     [ok |-> FALSE, content |-> <<>>,
      error |-> NativeError("InternalServerError", "The server had an error", 500)]}


(***************************************************************************)
(* State.  A request runs from its handler's entry to the response; the    *)
(* handler stops at every await and goes on when the awaited call settles. *)
(***************************************************************************)
VARIABLES
    pc,            \* "idle", "awaitRead", "awaitProvider", "awaitWrite", "done"
    endpoint,      \* "none", "single" (generate-content), "batch" (process-products)
    body,          \* req.body of the single request
    params,        \* req.body of the batch request
    productData,   \* generateAllContent: its argument
    kindIdx,       \* generateAllContent: position in contentTypes of the call awaited
    results,       \* generateAllContent: results, content type -> text
    errors,        \* generateAllContent: errors, in the order pushed
    productRows,   \* batch: rows.slice(1)
    rowIdx,        \* batch: position of the row in process, 0 outside the loop
    batchResults,  \* batch: results
    outputData,    \* batch: the values handed to writeToSpreadsheet
    log,           \* the external calls issued so far, in order
    raised,        \* the error handed to errorHandler, NoError when none was
    response       \* what the caller has received

vars ==
    <<pc, endpoint, body, params, productData, kindIdx, results, errors,
      productRows, rowIdx, batchResults, outputData, log, raised, response>>

\* the state as one record, so that the code's functions are operators on it
Cur ==
    [pc |-> pc, endpoint |-> endpoint, body |-> body, params |-> params,
     productData |-> productData, kindIdx |-> kindIdx, results |-> results,
     errors |-> errors, productRows |-> productRows, rowIdx |-> rowIdx,
     batchResults |-> batchResults, outputData |-> outputData, log |-> log,
     raised |-> raised, response |-> response]

Becomes(st) ==
    /\ pc' = st.pc
    /\ endpoint' = st.endpoint
    /\ body' = st.body
    /\ params' = st.params
    /\ productData' = st.productData
    /\ kindIdx' = st.kindIdx
    /\ results' = st.results
    /\ errors' = st.errors
    /\ productRows' = st.productRows
    /\ rowIdx' = st.rowIdx
    /\ batchResults' = st.batchResults
    /\ outputData' = st.outputData
    /\ log' = st.log
    /\ raised' = st.raised
    /\ response' = st.response

NoResults == [ct \in {} |-> <<>>]

NoOutput == [header |-> <<>>, rows |-> <<>>]

NoResponse == [kind |-> "none", status |-> 0, body |-> <<>>]

Init ==
    /\ pc = "idle"
    /\ endpoint = "none"
    /\ body = NoProduct
    /\ params = NoParams
    /\ productData = NoProduct
    /\ kindIdx = 0
    /\ results = NoResults
    /\ errors = <<>>
    /\ productRows = <<>>
    /\ rowIdx = 0
    /\ batchResults = <<>>
    /\ outputData = NoOutput
    /\ log = <<>>
    /\ raised = NoError
    /\ response = NoResponse

\* external calls, as the log holds them
ReadCall == [op |-> "read", row |-> 0, contentType |-> ""]

WriteCall == [op |-> "write", row |-> 0, contentType |-> ""]

ProviderCall(row, contentType) ==
    [op |-> "generate", row |-> row, contentType |-> contentType]

(***************************************************************************)
(* generateContent (src/unnamed/part_000:149-180): what the call yields    *)
(* once the provider has answered with outcome.                            *)
(***************************************************************************)
generateContent(contentType, outcome) ==
    IF outcome.ok
    THEN [threw |-> FALSE, value |-> Trim(outcome.content), error |-> NoError]
    ELSE IF outcome.error.status = 429
    THEN [threw |-> TRUE, value |-> <<>>, error |-> QuotaError]
    ELSE IF outcome.error.status = 401
    THEN [threw |-> TRUE, value |-> <<>>,
          error |-> OpenAIError("Invalid OpenAI API key", 401)]
    ELSE [threw |-> TRUE, value |-> <<>>,
          error |-> OpenAIError("Failed to generate " \o contentType \o ": "
                                \o outcome.error.message, 500)]

(***************************************************************************)
(* generateAllContent (src/unnamed/part_000:183-212)                       *)
(***************************************************************************)
contentTypes == <<"title", "bulletPoints", "aContent", "adCopy">>

\* a handler's catch: next(error), and errorHandler answers
Fail(st, err) ==
    [st EXCEPT !.pc = "done", !.raised = err, !.response = errorHandler(err)]

\* IssueCall that first tries the previous content type again when it failed
IssueCallRetrying(st, k) ==
    [st EXCEPT !.pc = "awaitProvider",
               !.kindIdx = k,
               !.log = IF k > 1 /\ st.errors # <<>>
                          /\ st.errors[Len(st.errors)].contentType = contentTypes[k - 1]
                       THEN @ \o <<ProviderCall(st.rowIdx, contentTypes[k - 1]),
                                   ProviderCall(st.rowIdx, contentTypes[k])>>
                       ELSE Append(@, ProviderCall(st.rowIdx, contentTypes[k]))]

\* the loop body up to its await: the provider is called for contentTypes[k]
IssueCall(st, k) ==
    [st EXCEPT !.pc = "awaitProvider",
               !.kindIdx = k,
               !.log = Append(@, ProviderCall(st.rowIdx, contentTypes[k]))]

\* RecordOutcome with the catch block left empty: a failure is swallowed
RecordOutcomeSwallowingErrors(st, contentType, g) ==
    IF g.threw THEN st
    ELSE [st EXCEPT !.results =
            [ct \in DOMAIN st.results \cup {contentType} |->
                IF ct = contentType THEN g.value ELSE st.results[ct]]]

\* RecordOutcome that puts a new error in front of the list (unshift)
RecordOutcomePrepending(st, contentType, g) ==
    IF g.threw
    THEN [st EXCEPT !.errors =
            <<[contentType |-> contentType, error |-> g.error.message]>> \o @]
    ELSE [st EXCEPT !.results =
            [ct \in DOMAIN st.results \cup {contentType} |->
                IF ct = contentType THEN g.value ELSE st.results[ct]]]

\* the loop body after its await: the text is stored, or the error is pushed
RecordOutcome(st, contentType, g) ==
    IF g.threw
    THEN [st EXCEPT !.errors =
            Append(@, [contentType |-> contentType, error |-> g.error.message])]
    ELSE [st EXCEPT !.results =
            [ct \in DOMAIN st.results \cup {contentType} |->
                IF ct = contentType THEN g.value ELSE st.results[ct]]]

\* GenerationResult that reports a record with no text at all as an error
GenerationResultAllFailedIsError(data, res, errs) ==
    [productName |-> data.name,
     status |-> IF Len(errs) = 0 THEN "success"
                ELSE IF DOMAIN res = {} THEN "error" ELSE "partial_success",
     data |-> res,
     errors |-> IF Len(errs) > 0 THEN [defined |-> TRUE, list |-> errs]
                ELSE [defined |-> FALSE, list |-> <<>>],
     timestamp |-> Timestamp]

\* the object returned; errors.defined FALSE is `errors: undefined`
GenerationResult(data, res, errs) ==
    [productName |-> data.name,
     status |-> IF Len(errs) = 0 THEN "success" ELSE "partial_success",
     data |-> res,
     errors |-> IF Len(errs) > 0 THEN [defined |-> TRUE, list |-> errs]
                ELSE [defined |-> FALSE, list |-> <<>>],
     timestamp |-> Timestamp]

\* entry: validation, then the first provider call; a throw reaches the
\* handler's catch
StartGenerateAllContent(st, data) ==
    LET v == validateProductData(data)
    IN  IF v.threw THEN Fail(st, v.error)
        ELSE IssueCall([st EXCEPT !.productData = data,
                                  !.results = NoResults,
                                  !.errors = <<>>], 1)


(***************************************************************************)
(* Sheet adapter (src/unnamed/part_000:215-243): what the call yields once *)
(* the store has answered with outcome.                                    *)
(***************************************************************************)
readFromSpreadsheet(outcome) ==
    IF outcome.ok
    THEN [threw |-> FALSE,
          value |-> IF outcome.hasValues THEN outcome.values ELSE <<>>,
          error |-> NoError]
    ELSE [threw |-> TRUE, value |-> <<>>,
          error |-> GoogleSheetsError("Failed to read spreadsheet: "
                                      \o outcome.error.message)]

\* writeToSpreadsheet with a catch that does not rethrow
writeToSpreadsheetIgnoringFailure(outcome) == Returns


writeToSpreadsheet(outcome) ==
    IF outcome.ok THEN Returns
    ELSE Throws(GoogleSheetsError("Failed to write to spreadsheet: "
                                  \o outcome.error.message))

(***************************************************************************)
(* POST /api/process-products (src/unnamed/part_000:257-328)               *)
(***************************************************************************)
\* row[j] of a JavaScript array, j counted from 0
At(row, j) == IF j + 1 <= Len(row) THEN row[j + 1] ELSE Undefined

RowToProduct(row) ==
    Product(At(row, 0), At(row, 1), At(row, 2), At(row, 3), At(row, 4),
            At(row, 5), At(row, 6))

\* JSON.stringify of the errors array
StringifyErrors(list) ==
    "[" \o Join([k \in 1..Len(list) |->
                    "{\"contentType\":\"" \o list[k].contentType
                    \o "\",\"error\":\"" \o list[k].error \o "\"}"], ",")
        \o "]"

\* result.data[ct] || ''
TextOrEmpty(result, ct) ==
    IF ct \in DOMAIN result.data THEN result.data[ct] ELSE <<>>

OutputHeader ==
    <<"Product Name", "Title", "Bullet Points", "A+ Content", "Ad Copy",
      "Status", "Errors">>

OutputRow(result) ==
    [productName |-> result.productName,
     title |-> TextOrEmpty(result, "title"),
     bulletPoints |-> TextOrEmpty(result, "bulletPoints"),
     aContent |-> TextOrEmpty(result, "aContent"),
     adCopy |-> TextOrEmpty(result, "adCopy"),
     status |-> result.status,
     errors |-> IF result.errors.defined
                THEN StringifyErrors(result.errors.list) ELSE ""]

\* lines 294-317 up to the await: the output is built and the write is issued
IssueWrite(st) ==
    [st EXCEPT !.pc = "awaitWrite",
               !.rowIdx = 0,
               !.outputData =
                   [header |-> OutputHeader,
                    rows |-> [k \in 1..Len(st.batchResults) |->
                                OutputRow(st.batchResults[k])]],
               !.log = Append(@, WriteCall)]

\* the head of the for loop over productRows, about to take row number i
NextRow(st, i) ==
    IF i > Len(st.productRows) THEN IssueWrite(st)
    ELSE StartGenerateAllContent([st EXCEPT !.rowIdx = i],
                                 RowToProduct(st.productRows[i]))

\* Returned that saves to the store after every product of a batch
ReturnedWritingEachRow(st, result) ==
    IF st.endpoint = "single"
    THEN [st EXCEPT !.pc = "done",
                    !.response = [kind |-> "result", status |-> 200,
                                  body |-> result]]
    ELSE NextRow([st EXCEPT !.batchResults = Append(@, result),
                            !.log = Append(@, WriteCall)], st.rowIdx + 1)

\* generateAllContent has returned result to its caller
Returned(st, result) ==
    IF st.endpoint = "single"
    THEN [st EXCEPT !.pc = "done",
                    !.response = [kind |-> "result", status |-> 200,
                                  body |-> result]]
    ELSE NextRow([st EXCEPT !.batchResults = Append(@, result)], st.rowIdx + 1)

\* provider failures recorded so far in this request
RECURSIVE FailureCount(_)
FailureCount(list) ==
    IF list = <<>> THEN 0
    ELSE Len(Head(list).errors.list) + FailureCount(Tail(list))

MayFail(st) ==
    \/ st.endpoint = "single"
    \/ FailureCount(st.batchResults) + Len(st.errors) < MaxBatchFailures

(***************************************************************************)
(* Actions.                                                                *)
(***************************************************************************)
\* POST /api/generate-content (src/unnamed/part_000:331-342), to its first await
PostGenerateContent(b) ==
    /\ pc = "idle"
    /\ LET st == [Cur EXCEPT !.endpoint = "single", !.body = b]
           v == validateProductData(b)
       IN  Becomes(IF v.threw THEN Fail(st, v.error)
                   ELSE StartGenerateAllContent(st, b))

\* POST /api/process-products, to its first await
PostProcessProducts(p) ==
    /\ pc = "idle"
    /\ LET st == [Cur EXCEPT !.endpoint = "batch", !.params = p]
           v == validateSpreadsheetParams(p)
       IN  Becomes(IF v.threw THEN Fail(st, v.error)
                   ELSE [st EXCEPT !.pc = "awaitRead",
                                   !.log = Append(@, ReadCall)])

\* the store answers the read: lines 264-292 up to the next await
ReadSettles(outcome) ==
    /\ pc = "awaitRead"
    /\ LET r == readFromSpreadsheet(outcome)
       IN  Becomes(IF r.threw THEN Fail(Cur, r.error)
                   ELSE IF Len(r.value) = 0
                   THEN [Cur EXCEPT !.pc = "done",
                                    !.response =
                                       [kind |-> "nodata", status |-> 400,
                                        body |-> [error |-> "No data found in the specified range",
                                                  code |-> "NO_DATA",
                                                  timestamp |-> Timestamp]]]
                   ELSE NextRow([Cur EXCEPT !.productRows = Tail(r.value),
                                            !.batchResults = <<>>], 1))

\* the provider answers: the rest of the loop body, then on to the next await
ProviderSettles(outcome) ==
    /\ pc = "awaitProvider"
    /\ outcome.ok \/ MayFail(Cur)
    /\ LET ct == contentTypes[kindIdx]
           st == RecordOutcome(Cur, ct, generateContent(ct, outcome))
       IN  Becomes(IF kindIdx < Len(contentTypes)
                   THEN IssueCall(st, kindIdx + 1)
                   ELSE Returned([st EXCEPT !.kindIdx = 0],
                                 GenerationResult(st.productData, st.results,
                                                  st.errors)))

\* the store answers the write: lines 317-324
WriteSettles(outcome) ==
    /\ pc = "awaitWrite"
    /\ LET w == writeToSpreadsheet(outcome)
       IN  Becomes(IF w.threw THEN Fail(Cur, w.error)
                   ELSE [Cur EXCEPT !.pc = "done",
                                    !.response =
                                       [kind |-> "batch", status |-> 200,
                                        body |-> [message |-> "Products processed successfully",
                                                  processed |-> Len(productRows),
                                                  results |-> batchResults,
                                                  timestamp |-> Timestamp]]])

Next ==
    \/ \E b \in ProductBodies : PostGenerateContent(b)
    \/ \E p \in BatchBodies : PostProcessProducts(p)
    \/ \E outcome \in ReadOutcomes : ReadSettles(outcome)
    \/ \E outcome \in ProviderOutcomes : ProviderSettles(outcome)
    \/ \E outcome \in WriteOutcomes : WriteSettles(outcome)

Spec == Init /\ [][Next]_vars


(***************************************************************************)
(* Properties.                                                             *)
(***************************************************************************)
ContentKinds == {contentTypes[k] : k \in 1..Len(contentTypes)}

\* every result generateAllContent has returned in this request
AllResults ==
    {batchResults[k] : k \in 1..Len(batchResults)}
    \cup (IF response.kind = "result" THEN {response.body} ELSE {})

\* the entries of a result's failure list that name content type ct
FailureEntries(r, ct) ==
    {k \in 1..Len(r.errors.list) : r.errors.list[k].contentType = ct}

\* the provider calls issued for content type ct of row number row
Calls(row, ct) == {k \in 1..Len(log) : log[k] = ProviderCall(row, ct)}

ProviderCallsIssued == {k \in 1..Len(log) : log[k].op = "generate"}

\* C1: every result of generateAllContent accounts for each of the four
\* content kinds exactly once: a kind has a text in `data` if and only if it
\* has no entry in `errors`, it has at most one entry there, and nothing but
\* the four kinds appears in either.
C1_EveryKindAccountedOnce ==
    \A r \in AllResults :
        /\ DOMAIN r.data \subseteq ContentKinds
        /\ \A k \in 1..Len(r.errors.list) :
              r.errors.list[k].contentType \in ContentKinds
        /\ r.errors.defined = (Len(r.errors.list) > 0)
        /\ \A ct \in ContentKinds :
              /\ (ct \in DOMAIN r.data) <=> (FailureEntries(r, ct) = {})
              /\ Cardinality(FailureEntries(r, ct)) <= 1

\* a result with texts and failures side by side
C1_Witness ==
    \E r \in AllResults :
        /\ "title" \in DOMAIN r.data
        /\ FailureEntries(r, "bulletPoints") # {}
        /\ "aContent" \in DOMAIN r.data
        /\ FailureEntries(r, "adCopy") # {}

\* C2: the provider is called exactly once for each of the four content
\* kinds of every record that generateAllContent has answered, never twice
\* for any kind whatever the other calls did, and for nothing else.
C2_OneCallPerKind ==
    /\ \A row \in 0..Len(productRows) : \A ct \in ContentKinds :
          Cardinality(Calls(row, ct)) <= 1
    /\ response.kind = "result" =>
          \A ct \in ContentKinds : Cardinality(Calls(0, ct)) = 1
    /\ \A row \in 1..Len(batchResults) : \A ct \in ContentKinds :
          Cardinality(Calls(row, ct)) = 1
    /\ Cardinality(ProviderCallsIssued)
          = Len(contentTypes) * Len(batchResults)
            + (IF response.kind = "result" THEN Len(contentTypes) ELSE 0)
            + (IF pc = "awaitProvider" THEN kindIdx ELSE 0)

\* the first three calls failed in three different ways, the fourth was made
C2_Witness ==
    /\ response.kind = "result"
    /\ Len(response.body.errors.list) = 3
    /\ response.body.errors.list[1].error = QuotaError.message
    /\ response.body.errors.list[2].error = "Invalid OpenAI API key"
    /\ "adCopy" \in DOMAIN response.body.data
    /\ Cardinality(Calls(0, "adCopy")) = 1

\* C3: generateAllContent on a valid record always returns: the status is
\* `success` exactly when there is no failure and `partial_success`
\* otherwise (also when all four calls failed, with four entries and no
\* text), and no provider failure ever reaches the caller as an error.
C3_StatusFromFailures ==
    /\ \A r \in AllResults :
          /\ r.status \in {"success", "partial_success"}
          /\ (r.status = "success") <=> (Len(r.errors.list) = 0)
          /\ DOMAIN r.data = {} =>
                r.status = "partial_success" /\ Len(r.errors.list) = 4
    /\ (endpoint = "single" /\ pc = "done" /\ ~validateProductData(body).threw)
          => response.kind = "result"
    /\ response.kind = "error" =>
          response.body.code \notin {"QUOTA_EXCEEDED", "OPENAI_ERROR"}

\* all four provider calls failed and the result is a partial success
C3_Witness ==
    \E r \in AllResults :
        /\ Len(r.errors.list) = 4
        /\ DOMAIN r.data = {}
        /\ r.status = "partial_success"


\* the results the caller has received
ReturnedResults ==
    IF response.kind = "result" THEN {response.body}
    ELSE IF response.kind = "batch"
    THEN {response.body.results[k] : k \in 1..Len(response.body.results)}
    ELSE {}

IsStoreError ==
    response.kind = "error" /\ response.body.code = "GOOGLE_SHEETS_ERROR"

IsValidationError ==
    response.kind = "error" /\ response.body.code = "VALIDATION_ERROR"

\* C4: a batch over N data rows whose store calls succeed yields exactly N
\* results, the i-th for the i-th data row, also when some data rows fail
\* product validation.
C4_OneResultPerRow ==
    (endpoint = "batch" /\ pc = "done" /\ productRows # <<>> /\ ~IsStoreError)
    => /\ response.kind = "batch"
       /\ Len(response.body.results) = Len(productRows)
       /\ \A k \in 1..Len(productRows) :
             response.body.results[k].productName = At(productRows[k], 1)

\* C5: when a request is rejected with a ValidationError, no provider call
\* has been issued on its behalf, in the single-product operation and in the
\* batch operation alike.
C5_RejectedBeforeAnyProviderCall ==
    (pc = "done" /\ IsValidationError) => ProviderCallsIssued = {}

\* C6: the store is read at most once and written at most once per request;
\* the read is the first external call of a batch and the write the last, so
\* that every provider call lies between them and none follows the write; a
\* success response of the batch has exactly one read and one write behind
\* it, and the single-product operation never touches the store.
C6_StoreReadOnceWrittenOnce ==
    /\ \A k \in 1..Len(log) :
          /\ log[k].op = "read" => k = 1
          /\ log[k].op = "write" => k = Len(log) /\ k > 1
    /\ (endpoint = "batch" /\ log # <<>>) => log[1] = ReadCall
    /\ endpoint = "single" => \A k \in 1..Len(log) : log[k].op = "generate"
    /\ response.kind = "batch" =>
          /\ Len(log) = 2 + Len(contentTypes) * Len(productRows)
          /\ log[1] = ReadCall
          /\ log[Len(log)] = WriteCall
    /\ \A k \in 2..Len(log) :
          (log[k].op = "generate" /\ log[k - 1].op = "generate")
          => log[k].row >= log[k - 1].row

\* a batch of two products has been read, generated and written
C6_Witness ==
    /\ response.kind = "batch"
    /\ Len(productRows) = 2
    /\ log[1] = ReadCall
    /\ log[6] = ProviderCall(2, "title")
    /\ log[10] = WriteCall

\* a store error is what the caller gets, with nothing else in the payload
EndsWithStoreError ==
    /\ pc = "done"
    /\ IsStoreError
    /\ response.status = 500
    /\ DOMAIN response.body = {"error", "code", "field", "timestamp"}

\* C7: a failing store read ends the batch with a store error before any
\* provider call and any write; a failing store write ends it with a store
\* error without results, although every row had been generated.
C7_StoreErrorsAbort ==
    [][/\ \A o \in ReadOutcomes :
             (~o.ok /\ ReadSettles(o))
             => (EndsWithStoreError' /\ log' = <<ReadCall>> /\ batchResults' = <<>>)
       /\ \A o \in WriteOutcomes :
             (~o.ok /\ WriteSettles(o))
             => /\ EndsWithStoreError'
                /\ Len(batchResults') = Len(productRows')
                /\ log'[Len(log')] = WriteCall]_vars

\* the write of a batch of two generated products has failed
C7_Witness ==
    /\ EndsWithStoreError
    /\ log[Len(log)] = WriteCall
    /\ Len(batchResults) = 2
    /\ Len(outputData.rows) = 2

\* C8: a provider answer of 401 is fatal for the request: no result the
\* caller receives lists the authentication failure as a per-kind failure.
C8_AuthFailureIsFatal ==
    \A r \in ReturnedResults :
        \A k \in 1..Len(r.errors.list) :
            r.errors.list[k].error # "Invalid OpenAI API key"

\* the constraints of a product record, as the specification words them
IsMissingOrBlank(v) ==
    \/ v.t \in {"undefined", "null"}
    \/ v.t = "string" /\ Trim(v.s) = <<>>

IsNonNegativeNumber(v) ==
    \/ v.t = "number" /\ v.n >= 0
    \/ /\ v.t = "string"
       /\ Trim(v.s) # <<>>
       /\ LET p == DecimalPrefix(Trim(v.s))
          IN  ~p.num.nan /\ p.used = Len(Trim(v.s)) /\ p.num.val >= 0

ViolatedConstraints(data) ==
    (IF IsMissingOrBlank(data.name)
     THEN <<"Product name is required">> ELSE <<>>)
    \o (IF IsMissingOrBlank(data.category)
        THEN <<"Product category is required">> ELSE <<>>)
    \o (IF data.price.t # "undefined" /\ ~IsNonNegativeNumber(data.price)
        THEN <<"Product price must be a valid positive number">> ELSE <<>>)
    \o (IF data.features.t # "undefined" /\ data.features.t # "string"
        THEN <<"Product features must be a string">> ELSE <<>>)

\* C9: validateProductData raises one ValidationError naming every violated
\* constraint, joined by "; " in the order name, category, price, features,
\* and raises nothing exactly when no constraint is violated (seen at the
\* single-product endpoint, whose first step is this validation).
C9_ReportsEveryViolation ==
    (endpoint = "single" /\ pc # "idle")
    => IF ViolatedConstraints(body) = <<>>
       THEN response.kind # "error"
       ELSE /\ IsValidationError
            /\ response.body.error = Join(ViolatedConstraints(body), "; ")

BatchParameters == {"spreadsheetId", "inputRange", "outputRange"}

\* C10: validateSpreadsheetParams raises a ValidationError whenever one of
\* the three parameters is missing or blank, tagged with the name of such a
\* parameter; a ValidationError of validateProductData carries no field tag,
\* also after formatErrorResponse.
C10_FieldTagTellsConfigFromData ==
    /\ (endpoint = "batch" /\ pc # "idle")
       => LET missing == {f \in BatchParameters : IsMissingOrBlank(params[f])}
          IN  IF missing # {}
              THEN /\ IsValidationError
                   /\ response.body.field.t = "string"
                   /\ response.body.field.s \in missing
              ELSE IsValidationError => response.body.field = FieldAbsent
    /\ (endpoint = "single" /\ IsValidationError)
       => response.body.field = FieldAbsent


(***************************************************************************)
(* The error middleware on its own: any route or middleware of the         *)
(* application may hand it an error (src/unnamed/part_000:358).            *)
(***************************************************************************)
ErrorMessages == {"", "boom", "Unexpected token } in JSON at position 9"}

\* errors of the service's own classes
ServiceErrors ==
    {ValidationError(m, f) :
        m \in {"Product name is required", "Spreadsheet ID is required"},
        f \in {FieldNull, FieldName("spreadsheetId"), FieldName("")}}
    \cup {QuotaError}
    \cup {GoogleSheetsError(m) : m \in ErrorMessages}
    \cup {OpenAIError(m, sc) : m \in ErrorMessages, sc \in {401, 500}}
    \cup {APIError("APIError", m, 500, "INTERNAL_ERROR") : m \in ErrorMessages}

\* errors of the runtime and of libraries: some carry the HTTP status of a
\* provider in `status`, some (body-parser) also set `statusCode`
ForeignErrors ==
    {[NativeError(cls, m, st) EXCEPT !.statusCode = sc] :
        cls \in {"Error", "TypeError", "SyntaxError"},
        m \in ErrorMessages,
        st \in {0, 400, 401, 404, 429, 500, 503},
        sc \in {0, 400, 503}}

ErrorObjects == ServiceErrors \cup ForeignErrors

\* next(err) from anywhere in the application: errorHandler answers
ErrorReachesHandler(e) ==
    /\ pc = "idle"
    /\ Becomes(Fail([Cur EXCEPT !.endpoint = "other"], e))

NextErrors == \E e \in ErrorObjects : ErrorReachesHandler(e)

SpecErrors == Init /\ [][NextErrors]_vars

\* the error carries a status formatErrorResponse knows from the provider
HasProviderStatus(e) == e.status = 429 \/ e.status = 401 \/ e.status >= 500

\* C11: the formatted payload of a QuotaError has code QUOTA_EXCEEDED and
\* goes out with status 429; an error of no known class and without a
\* provider status gets code UNKNOWN_ERROR and its own message, or the
\* fixed fallback message when it has none; every payload holds the
\* message, the code, the optional field and the timestamp and nothing
\* else, in particular not the stack.
C11_StableNonLeakingPayload ==
    (pc = "done" /\ response.kind = "error")
    => /\ DOMAIN response.body = {"error", "code", "field", "timestamp"}
       /\ response.body.error # raised.stack
       /\ response.body.code # raised.stack
       /\ response.body.field.s # raised.stack
       /\ raised.cls = "QuotaError"
          => /\ response.body.code = "QUOTA_EXCEEDED"
             /\ response.status = 429
       /\ (~raised.api /\ ~HasProviderStatus(raised))
          => /\ response.body.code = "UNKNOWN_ERROR"
             /\ response.body.error = IF raised.message = ""
                                      THEN "An unexpected error occurred"
                                      ELSE raised.message

\* a QuotaError has been formatted and sent
C11_Witness ==
    /\ pc = "done"
    /\ raised = QuotaError
    /\ response.kind = "error"
    /\ response.status = 429
    /\ response.body.code = "QUOTA_EXCEEDED"


\* the provider calls issued for row number row, in the order issued
CallsOfRow(row) ==
    SelectSeq(log, LAMBDA e : e.op = "generate" /\ e.row = row)

\* the place of a content type in contentTypes
KindIndex(ct) == CHOOSE k \in 1..Len(contentTypes) : contentTypes[k] = ct

InFixedOrder(list) ==
    \A j, k \in 1..Len(list) :
        j < k => KindIndex(list[j].contentType) < KindIndex(list[k].contentType)

\* C12: the provider calls of one record are issued in the order title,
\* bulletPoints, aContent, adCopy; a call is issued only when every earlier
\* call of the record has settled, so at most one is outstanding; and the
\* entries of every failure list stand in that same order.
C12_OneSequentialDiscipline ==
    /\ \A row \in 0..Len(productRows) :
          /\ Len(CallsOfRow(row)) <= Len(contentTypes)
          /\ \A k \in 1..Len(CallsOfRow(row)) :
                CallsOfRow(row)[k].contentType = contentTypes[k]
    /\ pc = "awaitProvider" =>
          /\ Len(CallsOfRow(rowIdx)) = kindIdx
          /\ Cardinality(DOMAIN results) + Len(errors) = kindIdx - 1
    /\ InFixedOrder(errors)
    /\ \A r \in AllResults : InFixedOrder(r.errors.list)

\* the first and the last call failed, the two between them succeeded
C12_Witness ==
    \E r \in AllResults :
        /\ Len(r.errors.list) = 2
        /\ r.errors.list[1].contentType = "title"
        /\ r.errors.list[2].contentType = "adCopy"
        /\ DOMAIN r.data = {"bulletPoints", "aContent"}


(***************************************************************************)
(* The legacy variant (src/server.js).  It shares the state of the model:  *)
(* pc is "awaitAll" while generateAllContent awaits Promise.all, `results` *)
(* then holds the texts of the calls already fulfilled, and the calls      *)
(* still awaited are the content types outside its domain.  A call whose   *)
(* Promise.all has already rejected settles without any effect on the      *)
(* program, a stuttering step, and is not followed further.                *)
(***************************************************************************)
\* generateContent (src/server.js:99-124): the text, or the provider's error
LegacyGenerateContent(outcome) ==
    IF outcome.ok
    THEN [threw |-> FALSE, value |-> Trim(outcome.content), error |-> NoError]
    ELSE [threw |-> TRUE, value |-> <<>>, error |-> outcome.error]

\* the handler's catch (src/server.js:255-258): a bare 500
LegacyFail(st, e) ==
    [st EXCEPT !.pc = "done",
               !.response = [kind |-> "error", status |-> 500,
                             body |-> [error |-> e.message]]]

\* row[j] || ''
AtOrEmpty(row, j) == IF Truthy(At(row, j)) THEN At(row, j) ELSE Str(<<>>)

\* src/server.js:214-222
LegacyRowToProduct(row) ==
    Product(At(row, 0), At(row, 1), At(row, 2), At(row, 3), At(row, 4),
            AtOrEmpty(row, 5), AtOrEmpty(row, 6))

\* generateAllContent, the object of its try block (src/server.js:138-147)
LegacySuccessResult(data, res) ==
    [sku |-> data.sku,
     productName |-> data.name,
     generatedTitle |-> res["title"],
     generatedBulletPoints |-> res["bulletPoints"],
     generatedAContent |-> res["aContent"],
     generatedAdCopy |-> res["adCopy"],
     timestamp |-> Timestamp,
     status |-> "success"]

\* generateAllContent, the object of its catch block (src/server.js:149-155)
LegacyErrorResult(data, e) ==
    [sku |-> data.sku,
     productName |-> data.name,
     status |-> "error",
     error |-> e.message,
     timestamp |-> Timestamp]

LegacyTextFields ==
    {"generatedTitle", "generatedBulletPoints", "generatedAContent",
     "generatedAdCopy"}

\* r[f] || ''
LegacyTextOrEmpty(r, f) == IF f \in DOMAIN r THEN r[f] ELSE <<>>

LegacyOutputHeader ==
    <<"SKU", "Product Name", "Generated Title", "Bullet Points", "A+ Content",
      "Ad Copy", "Status", "Timestamp">>

\* src/server.js:231-240
LegacyOutputRow(r) ==
    [sku |-> r.sku,
     productName |-> r.productName,
     generatedTitle |-> LegacyTextOrEmpty(r, "generatedTitle"),
     generatedBulletPoints |-> LegacyTextOrEmpty(r, "generatedBulletPoints"),
     generatedAContent |-> LegacyTextOrEmpty(r, "generatedAContent"),
     generatedAdCopy |-> LegacyTextOrEmpty(r, "generatedAdCopy"),
     status |-> r.status,
     timestamp |-> r.timestamp]

\* src/server.js:228-244 up to the await
LegacyIssueWrite(st) ==
    [st EXCEPT !.pc = "awaitWrite",
               !.rowIdx = 0,
               !.outputData =
                   [header |-> LegacyOutputHeader,
                    rows |-> [k \in 1..Len(st.batchResults) |->
                                LegacyOutputRow(st.batchResults[k])]],
               !.log = Append(@, WriteCall)]

\* generateAllContent up to its await (src/server.js:127-136): the four calls
\* are started one after the other before any of them can settle
LegacyStartGenerateAllContent(st, data) ==
    [st EXCEPT !.pc = "awaitAll",
               !.productData = data,
               !.results = NoResults,
               !.log = @ \o [k \in 1..Len(contentTypes) |->
                                ProviderCall(st.rowIdx, contentTypes[k])]]

\* the head of the for loop (src/server.js:213-226), about to take row i
LegacyNextRow(st, i) ==
    IF i > Len(st.productRows) THEN LegacyIssueWrite(st)
    ELSE LegacyStartGenerateAllContent([st EXCEPT !.rowIdx = i],
                                       LegacyRowToProduct(st.productRows[i]))

\* src/server.js:224-225
LegacyReturned(st, result) ==
    LegacyNextRow([st EXCEPT !.batchResults = Append(@, result),
                             !.results = NoResults], st.rowIdx + 1)

\* LegacySettled without the catch of generateAllContent: the rejection of
\* Promise.all reaches the handler
LegacySettledRethrowing(st, ct, g) ==
    IF g.threw THEN LegacyFail(st, g.error)
    ELSE LET res == [c \in DOMAIN st.results \cup {ct} |->
                        IF c = ct THEN g.value ELSE st.results[c]]
         IN  IF DOMAIN res = {contentTypes[k] : k \in 1..Len(contentTypes)}
             THEN LegacyReturned(st, LegacySuccessResult(st.productData, res))
             ELSE [st EXCEPT !.results = res]

\* Promise.all over the four calls, when the call for ct settles
\* (src/server.js:130-156): it rejects with the first rejection and fulfils
\* when the last call has fulfilled
LegacySettled(st, ct, g) ==
    IF g.threw
    THEN LegacyReturned(st, LegacyErrorResult(st.productData, g.error))
    ELSE LET res == [c \in DOMAIN st.results \cup {ct} |->
                        IF c = ct THEN g.value ELSE st.results[c]]
         IN  IF DOMAIN res = {contentTypes[k] : k \in 1..Len(contentTypes)}
             THEN LegacyReturned(st, LegacySuccessResult(st.productData, res))
             ELSE [st EXCEPT !.results = res]

\* POST /api/process-products (src/server.js:193-202), to its first await
LegacyPostProcessProducts(p) ==
    /\ pc = "idle"
    /\ LET st == [Cur EXCEPT !.endpoint = "legacy", !.params = p]
       IN  Becomes(IF ~Truthy(p.spreadsheetId)
                   THEN [st EXCEPT !.pc = "done",
                                   !.response =
                                      [kind |-> "error", status |-> 400,
                                       body |-> [error |-> "spreadsheetId is required"]]]
                   ELSE [st EXCEPT !.pc = "awaitRead",
                                   !.log = Append(@, ReadCall)])

\* the store answers the read (src/server.js:159-173, 202-226)
LegacyReadSettles(outcome) ==
    /\ pc = "awaitRead"
    /\ Becomes(IF ~outcome.ok THEN LegacyFail(Cur, outcome.error)
               ELSE IF ~outcome.hasValues \/ Len(outcome.values) = 0
               THEN [Cur EXCEPT !.pc = "done",
                                !.response =
                                   [kind |-> "nodata", status |-> 200,
                                    body |-> [message |-> "No new products to process",
                                              processed |-> 0]]]
               ELSE LegacyNextRow([Cur EXCEPT !.productRows = Tail(outcome.values),
                                              !.batchResults = <<>>], 1))

\* one of the calls Promise.all awaits settles
LegacyProviderSettles(ct, outcome) ==
    /\ pc = "awaitAll"
    /\ ct \in {contentTypes[k] : k \in 1..Len(contentTypes)} \ DOMAIN results
    /\ Becomes(LegacySettled(Cur, ct, LegacyGenerateContent(outcome)))

\* error: r.error || null, as [null, message]
LegacyErrorOrNull(r) ==
    IF "error" \in DOMAIN r /\ r.error # ""
    THEN [null |-> FALSE, message |-> r.error]
    ELSE [null |-> TRUE, message |-> ""]

\* the store answers the write (src/server.js:176-190, 244-258)
LegacyWriteSettles(outcome) ==
    /\ pc = "awaitWrite"
    /\ Becomes(IF ~outcome.ok THEN LegacyFail(Cur, outcome.error)
               ELSE [Cur EXCEPT !.pc = "done",
                                !.response =
                                   [kind |-> "batch", status |-> 200,
                                    body |-> [message |-> "Products processed successfully",
                                              processed |-> Len(batchResults),
                                              results |-> [k \in 1..Len(batchResults) |->
                                                  [sku |-> batchResults[k].sku,
                                                   status |-> batchResults[k].status,
                                                   error |-> LegacyErrorOrNull(batchResults[k])]]]]])

\* the legacy handler reads nothing of the body but spreadsheetId, and hands
\* the two ranges to the store as they are
LegacyBatchBodies ==
    {p \in BatchBodies :
        p.inputRange = Str(<<"A", "1">>) /\ p.outputRange = Str(<<"H", "1">>)}

NextLegacy ==
    \/ \E p \in LegacyBatchBodies : LegacyPostProcessProducts(p)
    \/ \E outcome \in ReadOutcomes : LegacyReadSettles(outcome)
    \/ \E ct \in {contentTypes[k] : k \in 1..Len(contentTypes)} :
          \E outcome \in ProviderOutcomes : LegacyProviderSettles(ct, outcome)
    \/ \E outcome \in WriteOutcomes : LegacyWriteSettles(outcome)

SpecLegacy == Init /\ [][NextLegacy]_vars


\* C13: the legacy generateAllContent starts its four provider calls at
\* once and always returns: a rejection, whichever call it comes from and
\* however many calls fulfilled before it, yields a result of status
\* `error` with the message of that first rejection and none of the four
\* text fields; the fulfilment of the last of the four yields status
\* `success` with all four texts.  So the batch holds one result per data
\* row, in input order, when the loop is through.
C13_LegacyAllOrNothing ==
    /\ [](/\ \A k \in 1..Len(batchResults) :
                /\ batchResults[k].sku = At(productRows[k], 0)
                /\ batchResults[k].productName = At(productRows[k], 1)
                /\ batchResults[k].status \in {"success", "error"}
                /\ batchResults[k].status = "success"
                      => LegacyTextFields \subseteq DOMAIN batchResults[k]
                /\ batchResults[k].status = "error"
                      => /\ LegacyTextFields \cap DOMAIN batchResults[k] = {}
                         /\ "error" \in DOMAIN batchResults[k]
          /\ pc = "awaitAll"
                => /\ Len(batchResults) = rowIdx - 1
                   /\ Len(CallsOfRow(rowIdx)) = Len(contentTypes)
                   /\ \A k \in 1..Len(contentTypes) :
                         CallsOfRow(rowIdx)[k].contentType = contentTypes[k]
          /\ pc = "awaitWrite" => Len(batchResults) = Len(productRows)
          /\ response.kind = "batch"
                => /\ Len(response.body.results) = Len(productRows)
                   /\ \A k \in 1..Len(productRows) :
                         response.body.results[k].sku = At(productRows[k], 0))
    /\ [][\A ct \in ContentKinds : \A outcome \in ProviderOutcomes :
            LegacyProviderSettles(ct, outcome)
            => /\ pc' \in {"awaitAll", "awaitWrite"}
               /\ response' = response
               /\ IF ~outcome.ok
                  THEN /\ Len(batchResults') = Len(batchResults) + 1
                       /\ batchResults'[Len(batchResults')].status = "error"
                       /\ batchResults'[Len(batchResults')].error
                             = outcome.error.message
                  ELSE IF DOMAIN results \cup {ct} = ContentKinds
                  THEN /\ Len(batchResults') = Len(batchResults) + 1
                       /\ batchResults'[Len(batchResults')].status = "success"
                  ELSE batchResults' = batchResults]_vars

\* a batch of two rows is through: the first row was rejected for its quota,
\* the second got its four texts
C13_Witness ==
    /\ endpoint = "legacy"
    /\ response.kind = "batch"
    /\ Len(batchResults) = 2
    /\ batchResults[1].status = "error"
    /\ batchResults[1].error = "You exceeded your current quota"
    /\ batchResults[2].status = "success"
    /\ response.body.results[1].error.message = "You exceeded your current quota"
    /\ response.body.results[2].error.null

=============================================================================
